---------------------------- MODULE Spec2Model ----------------------------
(***************************************************************************)
(* Trial selection, size equalization, samplers and group assignment of    *)
(* nips2018/movie/parameters.py.                                           *)
(*                                                                         *)
(* Python strings that the code parses (stimulus-type expressions, the     *)
(* key's comma separated token list, trial types) are sequences of         *)
(* one-character strings, so that split / strip / startswith / [1:] are    *)
(* computed and not assumed.  Tier labels are only ever compared and are   *)
(* plain strings.  A numpy boolean vector is a sequence of BOOLEAN.        *)
(***************************************************************************)
EXTENDS Integers, Sequences, FiniteSets, TLC

VARIABLES
    dataset,      \* get_constraint: the dataset argument [types, tiers]
    gc,           \* get_constraint: the call and its outcome
    datasets,     \* get_loaders: the datasets, in key order
    gl,           \* get_loaders: the call and its outcome
    key,          \* split load_data: the configuration row
    member_count, \* split load_data: len(MovieMultiDataset.Member() & key)
    ld,           \* split load_data: the call and its outcome
    sampler,      \* BalancedSubsetSampler: the constructed object
    emitted       \* BalancedSubsetSampler: the indices of the last iteration

vars == <<dataset, gc, datasets, gl, key, member_count, ld, sampler, emitted>>

gcVars == <<dataset, gc>>
glVars == <<datasets, gl>>
ldVars == <<key, member_count, ld>>
bsVars == <<sampler, emitted>>

\* Python's None (tier=None)
None == "None"

\* the value of a variable a specification does not use
Idle == [pc |-> "idle"]

(***************************************************************************)
(* Bounds                                                                  *)
(***************************************************************************)
\* trials of the dataset handed to get_constraint
NumTrialsGC == 2
\* characters of a stimulus-type expression handed to get_constraint
MaxExprLen == 3
\* trials of the dataset a BalancedSubsetSampler is built over
NumTrialsBS == 3
\* tokens of a split configuration's stimulus_types, and member datasets
MaxTokens == 3
MaxMembers == 7
\* trials of each dataset handed to get_loaders (the masks are and-ed
\* elementwise across datasets, so the datasets have one length)
NumTrials == 3

(***************************************************************************)
(* str.split, str.strip, str.startswith                                    *)
(***************************************************************************)
Min(S) == CHOOSE x \in S : \A y \in S : x <= y
Max(S) == CHOOSE x \in S : \A y \in S : x >= y

\* s[i:] of Python for 0-based i, as a 1-based sequence
Drop(s, i) == SubSeq(s, i + 1, Len(s))

RECURSIVE Split(_, _)
Split(s, sep) ==
    IF \A i \in 1..Len(s) : s[i] # sep
    THEN <<s>>
    ELSE LET i == Min({j \in 1..Len(s) : s[j] = sep})
         IN  <<SubSeq(s, 1, i - 1)>> \o Split(Drop(s, i), sep)

Whitespace == {" "}

RECURSIVE LStrip(_)
LStrip(s) == IF Len(s) > 0 /\ s[1] \in Whitespace THEN LStrip(Tail(s)) ELSE s

RECURSIVE RStrip(_)
RStrip(s) ==
    IF Len(s) > 0 /\ s[Len(s)] \in Whitespace
    THEN RStrip(SubSeq(s, 1, Len(s) - 1))
    ELSE s

Strip(s) == LStrip(RStrip(s))

StartsWithTilde(s) == Len(s) > 0 /\ s[1] = "~"

\* map(lambda s: s.strip(), stimulus_type.split('|'))
Tokens(stimulus_type) ==
    LET parts == Split(stimulus_type, "|")
    IN  [k \in 1..Len(parts) |-> Strip(parts[k])]

\* a variant that compares a negated token with its tilde still on
TokenVectorKeepTilde(types, const) ==
    IF StartsWithTilde(const)
    THEN [p \in 1..Len(types) |-> types[p] # const]
    ELSE [p \in 1..Len(types) |-> types[p] = const]

(***************************************************************************)
(* StimulusTypeMixin.get_constraint                                        *)
(***************************************************************************)
\* the per-token vector tmp
TokenVector(types, const) ==
    IF StartsWithTilde(const)
    THEN [p \in 1..Len(types) |-> types[p] # Drop(const, 1)]
    ELSE [p \in 1..Len(types) |-> types[p] = const]

\* the loop "constraint = constraint | tmp" over the tokens from the k-th on
RECURSIVE OrTokens(_, _, _, _)
OrTokens(types, toks, k, constraint) ==
    IF k > Len(toks)
    THEN constraint
    ELSE LET tmp == TokenVector(types, toks[k])
         IN  OrTokens(types, toks, k + 1,
                      [p \in 1..Len(types) |-> constraint[p] \/ tmp[p]])

get_constraint(ds, stimulus_type, tier) ==
    LET zeros      == [p \in 1..Len(ds.types) |-> FALSE]
        constraint == OrTokens(ds.types, Tokens(stimulus_type), 1, zeros)
    IN  IF tier # None
        THEN [p \in 1..Len(ds.types) |-> constraint[p] /\ ds.tiers[p] = tier]
        ELSE constraint


(***************************************************************************)
(* get_constraint as an operation: one call on one dataset                 *)
(***************************************************************************)
TypeNamesGC == {<<"A">>, <<"B">>}
TierLabels  == {"train", "test"}
TierArgs    == {None, "train", "validation", "test"}
ExprChars   == {"A", "B", "~", "|", " "}

\* every string of at most n characters
Strings(n) == UNION {[1..k -> ExprChars] : k \in 0..n}

InitGC ==
    /\ dataset \in [types : [1..NumTrialsGC -> TypeNamesGC],
                    tiers : [1..NumTrialsGC -> TierLabels]]
    /\ gc = Idle
    /\ datasets = <<>>
    /\ gl = Idle
    /\ key = Idle
    /\ member_count = 0
    /\ ld = Idle
    /\ sampler = Idle
    /\ emitted = <<>>

\* the body has no raise and no indexing that can fail on a string argument:
\* every call returns a vector
CallGetConstraint ==
    /\ gc.pc = "idle"
    /\ \E stimulus_type \in Strings(MaxExprLen), tier \in TierArgs \ {"validation"} :
          gc' = [pc            |-> "returned",
                 stimulus_type |-> stimulus_type,
                 tier          |-> tier,
                 constraint    |-> get_constraint(dataset, stimulus_type, tier)]
    /\ UNCHANGED <<dataset, glVars, ldVars, bsVars>>

NextGC == CallGetConstraint

SpecGC == InitGC /\ [][NextGC]_vars


(***************************************************************************)
(* BalancedSubsetSampler.__init__                                          *)
(***************************************************************************)
\* Counter(types[indices]): the categories and the count of each
Categories(indices, types) == {types[indices[k]] : k \in 1..Len(indices)}
Count(indices, types, e) == Cardinality({k \in 1..Len(indices) : types[indices[k]] = e})
CounterValues(indices, types) ==
    {Count(indices, types, e) : e \in Categories(indices, types)}

\* mutants of NumSamples: one draw per category and count; min and max swapped
NumSamplesPerCategory(indices, types, mode) ==
    IF mode = "longest"
    THEN Max(CounterValues(indices, types))
    ELSE Cardinality(Categories(indices, types)) * Min(CounterValues(indices, types))
NumSamplesSwapped(indices, types, mode) ==
    IF mode = "longest"
    THEN Min(CounterValues(indices, types))
    ELSE Max(CounterValues(indices, types))

\* self.num_samples: max(c.values()) or min(c.values())
NumSamples(indices, types, mode) ==
    IF mode = "longest"
    THEN Max(CounterValues(indices, types))
    ELSE Min(CounterValues(indices, types))

\* min() and max() of an empty Counter raise ValueError.  The weight 1 / n
\* of an index is kept as its denominator n.
BalancedSubsetSampler(indices, types, mode) ==
    IF mode \in {"longest", "shortest"} /\ Categories(indices, types) = {}
    THEN [pc |-> "raised", error |-> "ValueError"]
    ELSE [pc          |-> "constructed",
          kind        |-> "BalancedSubsetSampler",
          indices     |-> indices,
          num_samples |-> NumSamples(indices, types, mode),
          replacement |-> (mode = "longest"),
          weights     |-> [k \in 1..Len(indices) |->
                             Count(indices, types, types[indices[k]])]]

\* SubsetRandomSampler(ix) of torch and SubsetSequentialSampler(ix)
PlainSampler(kind, indices) ==
    [pc |-> "constructed", kind |-> kind, indices |-> indices]

(***************************************************************************)
(* StimulusTypeMixin.get_loaders                                           *)
(***************************************************************************)
\* 'stimulus.Clip', and any other trial type
Clip  == <<"C">>
Noise == <<"N">>

\* e.sum()
Sum(c) == Cardinality({p \in 1..Len(c) : c[p]})
\* c.cumsum()[p]
CumSum(c, p) == Cardinality({q \in 1..p : c[q]})
\* np.where(constraint)[0], as 1-based positions in ascending order
RECURSIVE Where(_, _)
Where(c, p) ==
    IF p > Len(c) THEN <<>>
    ELSE (IF c[p] THEN <<p>> ELSE <<>>) \o Where(c, p + 1)

HasPipe(st) == \E i \in 1..Len(st) : st[i] = "|"

\* mutant of Truncate: the last min_n true entries are kept
TruncateKeepLast(c, min_n) ==
    [p \in 1..Len(c) |-> c[p] /\ Sum(c) - CumSum(c, p - 1) <= min_n]

\* c2 of a mask without '|': c & (c.cumsum() <= min_n)
Truncate(c, min_n) == [p \in 1..Len(c) |-> c[p] /\ CumSum(c, p) <= min_n]

\* mutants of Cascade: "c3 = c3 & untouched" rebinds the loop variable and
\* changes no mask; constraints[i + 1:i + 2] reaches the next mask only
CascadeRebind(constraints, i, untouched) == constraints
CascadeNextOnly(constraints, i, untouched) ==
    [j \in 1..Len(constraints) |->
        IF j = i + 1
        THEN [p \in 1..Len(constraints[j]) |-> constraints[j][p] /\ untouched[p]]
        ELSE constraints[j]]

\* a further variant: constraints[i + 2:] skips the next mask
CascadeSkipNext(constraints, i, untouched) ==
    [j \in 1..Len(constraints) |->
        IF j > i + 1
        THEN [p \in 1..Len(constraints[j]) |-> constraints[j][p] /\ untouched[p]]
        ELSE constraints[j]]

\* for c3 in constraints[i + 1:]: c3 &= untouched   (in place)
Cascade(constraints, i, untouched) ==
    [j \in 1..Len(constraints) |->
        IF j > i
        THEN [p \in 1..Len(constraints[j]) |-> constraints[j][p] /\ untouched[p]]
        ELSE constraints[j]]

\* the loop over zip(count(), constraints, stimulus_types) from the i-th mask
\* on; c is read from the list as the earlier iterations left it
RECURSIVE ShrinkLoop(_, _, _, _, _)
ShrinkLoop(constraints, stimulus_types, i, min_n, new_con) ==
    IF i > Len(constraints)
    THEN new_con
    ELSE LET c  == constraints[i]
             c2 == IF ~HasPipe(stimulus_types[i]) THEN Truncate(c, min_n) ELSE c
             untouched == [p \in 1..Len(c) |-> c[p] = c2[p]]
         IN  ShrinkLoop(Cascade(constraints, i, untouched), stimulus_types,
                        i + 1, min_n, Append(new_con, c2))

MinN(constraints) == Min({Sum(constraints[i]) : i \in 1..Len(constraints)})

\* a variant without the test on the tier
ShrinkAppliesAnyTier(tier, shrink_to_same_size) == shrink_to_same_size

ShrinkApplies(tier, shrink_to_same_size) ==
    shrink_to_same_size /\ (tier = None \/ tier \in {"train", "validation"})

Shrink(constraints, stimulus_types, tier, shrink_to_same_size) ==
    IF ShrinkApplies(tier, shrink_to_same_size)
    THEN ShrinkLoop(constraints, stimulus_types, 1, MinN(constraints), <<>>)
    ELSE constraints

\* types = ['Clip' if t == 'stimulus.Clip' else 'Noise' for t in dataset.types]
MergeNoiseTypes(types) ==
    [p \in 1..Len(types) |-> IF types[p] = Clip THEN "Clip" ELSE "Noise"]

\* the sampler of one dataset
MakeSampler(ds, constraint, tier, balanced) ==
    LET ix == Where(constraint, 1)
    IN  IF tier = "train"
        THEN IF ~balanced
             THEN PlainSampler("SubsetRandomSampler", ix)
             ELSE BalancedSubsetSampler(ix, MergeNoiseTypes(ds.types), "shortest")
        ELSE PlainSampler("SubsetSequentialSampler", ix)

\* stimulus_types that is not a list stands for every dataset
AsList(stimulus_types, n) ==
    IF stimulus_types.list
    THEN stimulus_types.value
    ELSE [k \in 1..n |-> stimulus_types.value]

\* constraints = [self.get_constraint(dataset, stimulus_type, tier=tier) ...]
Constraints(dss, stimulus_types, tier) ==
    [k \in 1..Len(dss) |-> get_constraint(dss[k], stimulus_types[k], tier)]

\* the loop that builds one loader per dataset
Loaders(dss, constraints, tier, balanced) ==
    [k \in 1..Len(dss) |-> MakeSampler(dss[k], constraints[k], tier, balanced)]

\* get_loaders(datasets, tier, batch_size, stimulus_types, balanced,
\*             merge_noise_types=True, shrink_to_same_size): the masks as
\* built, the masks as equalized and the samplers; a sampler constructor
\* that raises ends the call without loaders
get_loaders(tier, stimulus_types, balanced, shrink_to_same_size) ==
    /\ gl.pc = "idle"
    /\ \E sts \in {AsList(stimulus_types, Len(datasets))} :
       \E built \in {Constraints(datasets, sts, tier)} :
       \E cons \in {Shrink(built, sts, tier, shrink_to_same_size)} :
       \E loaders \in {Loaders(datasets, cons, tier, balanced)} :
       \E failed \in {\E k \in 1..Len(loaders) : loaders[k].pc = "raised"} :
          gl' = [pc                  |-> IF failed THEN "raised" ELSE "returned",
                 tier                |-> tier,
                 stimulus_types      |-> sts,
                 balanced            |-> balanced,
                 shrink_to_same_size |-> shrink_to_same_size,
                 built               |-> built,
                 constraints         |-> cons,
                 loaders             |-> IF failed THEN <<>> ELSE loaders]
    /\ UNCHANGED <<gcVars, datasets, ldVars, bsVars>>

\* the keys of the datasets, in key order
Keys == <<"k1", "k2", "k3">>

\* the stimulus types the split configurations use:
\* 'stimulus.Clip', '~stimulus.Clip', 'stimulus.Clip|~stimulus.Clip'
ConfiguredTypes == {<<"C">>, <<"~", "C">>, <<"C", "|", "~", "C">>}

StimulusTypesArgs ==
    [list : {TRUE}, value : [1..Len(Keys) -> ConfiguredTypes]]
    \cup [list : {FALSE}, value : ConfiguredTypes]

\* the tiers of the trials: the last trial is held out for testing
TrialTiers == [p \in 1..NumTrials |-> IF p = NumTrials THEN "test" ELSE "train"]

InitGL ==
    /\ datasets \in [1..Len(Keys) ->
                       [types : [1..NumTrials -> {Clip, Noise}], tiers : {TrialTiers}]]
    /\ gl = Idle
    /\ dataset = Idle
    /\ gc = Idle
    /\ key = Idle
    /\ member_count = 0
    /\ ld = Idle
    /\ sampler = Idle
    /\ emitted = <<>>

\* a call with the default balanced=False
CallGetLoaders ==
    \E tier \in TierArgs, shrink_to_same_size \in BOOLEAN,
       stimulus_types \in StimulusTypesArgs :
        get_loaders(tier, stimulus_types, FALSE, shrink_to_same_size)

NextGL == CallGetLoaders

SpecGL == InitGL /\ [][NextGL]_vars

(***************************************************************************)
(* BalancedSubsetSampler as an object: construction, iteration, length     *)
(***************************************************************************)
\* __init__(indices, types, mode): the arguments of the call and the object
Construct(indices, types, mode) ==
    /\ sampler.pc = "idle"
    /\ \E self \in {BalancedSubsetSampler(indices, types, mode)} :
          sampler' = [pc   |-> self.pc,
                      args |-> [indices |-> indices, types |-> types, mode |-> mode],
                      self |-> self]
    /\ emitted' = <<>>
    /\ UNCHANGED <<gcVars, glVars, ldVars>>

\* torch.multinomial(weights, num_samples, replacement): num_samples
\* positions of the weight vector, none twice unless replacement; every
\* weight is positive, so every position can be drawn
Multinomial(weights, num_samples, replacement) ==
    {d \in [1..num_samples -> 1..Len(weights)] :
        replacement \/ \A a, b \in 1..num_samples : a # b => d[a] # d[b]}

\* __iter__: (self.indices[i] for i in torch.multinomial(...)); every
\* iteration draws again
Iter ==
    /\ sampler.pc = "constructed"
    /\ \E d \in Multinomial(sampler.self.weights, sampler.self.num_samples,
                            sampler.self.replacement) :
          emitted' = [i \in 1..Len(d) |-> sampler.self.indices[d[i]]]
    /\ UNCHANGED <<gcVars, glVars, ldVars, sampler>>

\* __len__
BalancedLen(s) == s.num_samples

InitBS ==
    /\ sampler = Idle
    /\ emitted = <<>>
    /\ dataset = Idle
    /\ gc = Idle
    /\ datasets = <<>>
    /\ gl = Idle
    /\ key = Idle
    /\ member_count = 0
    /\ ld = Idle

\* the index lists get_loaders passes: np.where of a mask over the trials
IndexLists(n) == {Where(m, 1) : m \in [1..n -> BOOLEAN]}

ConstructAny ==
    \E types \in [1..NumTrialsBS -> {"Clip", "Noise"}],
       indices \in IndexLists(NumTrialsBS),
       mode \in {"shortest", "longest"} :
        Construct(indices, types, mode)

NextBS == ConstructAny \/ Iter

SpecBS == InitBS /\ [][NextBS]_vars

\* ten trials, three of category A and seven of category B, all listed
FixtureTypes == <<"A", "A", "A", "B", "B", "B", "B", "B", "B", "B">>
FixtureIndices == [k \in 1..Len(FixtureTypes) |-> k]

ConstructFixture == Construct(FixtureIndices, FixtureTypes, "shortest")

NextP5 == ConstructFixture \/ Iter

SpecP5 == InitBS /\ [][NextP5]_vars

(***************************************************************************)
(* DataConfig.AreaLayerSplitRawInputResponse.load_data and                 *)
(* DataConfig.AreaLayerSplitRawSizeMatched.load_data                       *)
(***************************************************************************)
\* t = [s.strip() for s in key['stimulus_types'].split(',')]
SplitTokens(stimulus_types) ==
    LET parts == Split(stimulus_types, ",")
    IN  [k \in 1..Len(parts) |-> Strip(parts[k])]

\* mutant of GroupSizes: the remainder is spread over the first groups
GroupSizesSpread(n, T) ==
    [i \in 1..T |-> IF i <= n % T THEN (n \div T) + 1 ELSE n \div T]

\* [n // T if i < T - 1 else n - (T - 1) * (n // T) for i in range(T)]
GroupSizes(n, T) ==
    [i \in 1..T |-> IF i - 1 < T - 1 THEN n \div T ELSE n - (T - 1) * (n \div T)]

\* mutant of Rotate: t[-permute:] + t[:-permute], a rotation to the right
RotateRight(t, permute) ==
    SubSeq(t, Len(t) - permute + 1, Len(t)) \o SubSeq(t, 1, Len(t) - permute)

\* t[permute:] + t[:permute]
Rotate(t, permute) == Drop(t, permute) \o SubSeq(t, 1, permute)

\* g * [a]
Repeat(g, a) == [k \in 1..g |-> a]

\* reduce(add, [g * [a] for g, a in zip(group_sizes, rotated)])
RECURSIVE ConcatGroups(_, _, _)
ConcatGroups(group_sizes, rotated, i) ==
    IF i > Len(group_sizes) THEN <<>>
    ELSE Repeat(group_sizes[i], rotated[i]) \o ConcatGroups(group_sizes, rotated, i + 1)

\* mutant of EnoughMembers: any member at all passes
EnoughMembersAny(n, T) == n >= 1

\* assert n // T >= 1, 'not enough member datasets to do splits'
EnoughMembers(n, T) == n \div T >= 1

\* the body of both load_data methods up to the call of super().load_data,
\* whose arguments are recorded; the two differ in shrink_to_same_size
SplitLoadData(cls, tier, shrink_to_same_size) ==
    /\ ld.pc = "idle"
    /\ \E t \in {SplitTokens(key.stimulus_types)} :
       \E T \in {Len(t)} :
       \E n \in {member_count} :
       \E permute \in {key.permute % T} :
          IF ~EnoughMembers(n, T)
          THEN ld' = [pc |-> "raised", error |-> "AssertionError"]
          ELSE \E group_sizes \in {GroupSizes(n, T)} :
                  ld' = [pc                  |-> "super",
                         cls                 |-> cls,
                         group_sizes         |-> group_sizes,
                         tier                |-> tier,
                         stimulus_types      |-> ConcatGroups(group_sizes,
                                                              Rotate(t, permute), 1),
                         balanced            |-> (key.balanced # 0),
                         shrink_to_same_size |-> shrink_to_same_size]
    /\ UNCHANGED <<gcVars, glVars, key, member_count, bsVars>>

LoadDataRawInputResponse ==
    \E tier \in {None, "train"} :
        SplitLoadData("AreaLayerSplitRawInputResponse", tier, FALSE)

LoadDataRawSizeMatched ==
    \E tier \in {None, "train"} :
        SplitLoadData("AreaLayerSplitRawSizeMatched", tier, TRUE)

\* ','.join(tokens), with or without a blank after each comma
RECURSIVE Join(_, _)
Join(tokens, sep) ==
    IF Len(tokens) = 1 THEN tokens[1]
    ELSE tokens[1] \o sep \o Join(Tail(tokens), sep)

TokenNames == {<<"x">>, <<"y">>, <<"z">>}
TokenLists == UNION {[1..k -> TokenNames] : k \in 1..MaxTokens}
Separators == {<<",">>, <<",", " ">>}

InitLD ==
    /\ key \in [stimulus_types : {Join(ts, sep) : ts \in TokenLists, sep \in Separators},
                permute        : -1..MaxTokens,
                balanced       : {0, 1}]
    /\ member_count \in 0..MaxMembers
    /\ ld = Idle
    /\ dataset = Idle
    /\ gc = Idle
    /\ datasets = <<>>
    /\ gl = Idle
    /\ sampler = Idle
    /\ emitted = <<>>

NextLD == LoadDataRawInputResponse \/ LoadDataRawSizeMatched

SpecLD == InitLD /\ [][NextLD]_vars

(***************************************************************************)
(* get_loaders with the balanced flag, and the iteration of its samplers   *)
(***************************************************************************)
\* SubsetSequentialSampler.__iter__: (self.indices[i] for i in range(len(...)))
SequentialIter(indices) == [i \in 1..Len(indices) |-> indices[i]]

\* torch's SubsetRandomSampler.__iter__: the indices in the order of a
\* random permutation
RandomIter(indices) ==
    {[i \in 1..Len(indices) |-> indices[d[i]]] :
        d \in {e \in [1..Len(indices) -> 1..Len(indices)] :
                 \A a, b \in 1..Len(indices) : a # b => e[a] # e[b]}}

\* what one iteration of a loader's sampler can emit
SamplerOutputs(s) ==
    CASE s.kind = "SubsetSequentialSampler" -> {SequentialIter(s.indices)}
      [] s.kind = "SubsetRandomSampler"     -> RandomIter(s.indices)
      [] s.kind = "BalancedSubsetSampler"   ->
            {[i \in 1..Len(d) |-> s.indices[d[i]]] :
                d \in Multinomial(s.weights, s.num_samples, s.replacement)}

\* the training loop iterates the sampler of loader k; every iteration
\* starts afresh
IterLoader ==
    /\ gl.pc = "returned"
    /\ \E k \in 1..Len(gl.loaders) :
       \E out \in SamplerOutputs(gl.loaders[k]) :
          /\ sampler' = [pc |-> "iterated", k |-> k]
          /\ emitted' = out
    /\ UNCHANGED <<gcVars, glVars, ldVars>>

\* the member datasets of one group record the same trials
InitGLB ==
    /\ \E types \in [1..NumTrials -> {Clip, Noise}] :
          datasets = [k \in 1..Len(Keys) |-> [types |-> types, tiers |-> TrialTiers]]
    /\ gl = Idle
    /\ dataset = Idle
    /\ gc = Idle
    /\ key = Idle
    /\ member_count = 0
    /\ ld = Idle
    /\ sampler = Idle
    /\ emitted = <<>>

\* a call with either setting of balanced
CallGetLoadersBalanced ==
    \E tier \in TierArgs, balanced \in BOOLEAN, shrink_to_same_size \in BOOLEAN,
       stimulus_types \in StimulusTypesArgs :
        get_loaders(tier, stimulus_types, balanced, shrink_to_same_size)

NextGLB == CallGetLoadersBalanced \/ IterLoader

SpecGLB == InitGLB /\ [][NextGLB]_vars

(***************************************************************************)
(* Size equalization (get_loaders, shrink_to_same_size)                    *)
(***************************************************************************)
\* the call has run the equalization
Shrunk == gl.pc # "idle" /\ ShrinkApplies(gl.tier, gl.shrink_to_same_size)

NonUnion(k) == \A i \in 1..Len(gl.stimulus_types[k]) : gl.stimulus_types[k][i] # "|"
AllNonUnion == \A k \in 1..Len(gl.stimulus_types) : NonUnion(k)

\* the number of true entries of a mask, and of its entries up to p
TrueCount(m) == Cardinality({p \in 1..Len(m) : m[p]})
TrueUpTo(m, p) == Cardinality({q \in 1..p : m[q]})
\* the minimum true-count of the masks as get_constraint built them
BuiltMin == Min({TrueCount(gl.built[k]) : k \in 1..Len(gl.built)})
\* equalization removed position p from mask k
Removed(k, p) == gl.built[k][p] /\ ~gl.constraints[k][p]

\* C1: after equalization of non-union masks every mask has min_n true
\* entries, min_n being the minimum true-count of the masks as built.
C1_AllEqualToMin ==
    (Shrunk /\ AllNonUnion) =>
        \A k \in 1..Len(gl.constraints) : TrueCount(gl.constraints[k]) = BuiltMin

\* C2 as stated: the entries a non-union mask retains are a prefix, in trial
\* order, of the true entries of the mask as built.
C2_RetainedIsPrefix ==
    Shrunk =>
        \A k \in 1..Len(gl.constraints) : NonUnion(k) =>
            \A p \in 1..NumTrials : gl.constraints[k][p] =>
                \A q \in 1..(p - 1) : gl.built[k][q] => gl.constraints[k][q]

\* position q of mask k was removed from a mask earlier in the input order
RemovedEarlier(k, q) == \E i \in 1..(k - 1) : Removed(i, q)

\* C2 as amended: the entries a non-union mask retains are a prefix, in trial
\* order, of the true entries it was built with that equalization removed
\* from no mask earlier in the input order.
C2_RetainedIsPrefixOfRemaining ==
    Shrunk =>
        \A k \in 1..Len(gl.constraints) : NonUnion(k) =>
            \A p \in 1..NumTrials : gl.constraints[k][p] =>
                \A q \in 1..(p - 1) :
                    (gl.built[k][q] /\ ~RemovedEarlier(k, q)) => gl.constraints[k][q]

\* a non-union mask that keeps a later entry and not an earlier one, which
\* an earlier mask's truncation took
C2_Witness ==
    /\ Shrunk
    /\ \E k \in 2..Len(gl.constraints) :
          /\ NonUnion(k)
          /\ \E p \in 1..NumTrials, q \in 1..NumTrials :
                /\ q < p
                /\ gl.constraints[k][p]
                /\ gl.built[k][q] /\ ~gl.constraints[k][q] /\ RemovedEarlier(k, q)

\* C3 as stated: equalization leaves every union mask as it was built.
C3_UnionUnchanged ==
    Shrunk =>
        \A k \in 1..Len(gl.constraints) : ~NonUnion(k) =>
            gl.constraints[k] = gl.built[k]

\* C3 as amended: a union mask is never truncated by count; it keeps exactly
\* the entries it was built with that equalization removed from no mask
\* earlier in the input order (so the first mask, if a union, is unchanged).
C3_UnionLosesOnlyRemoved ==
    Shrunk =>
        \A k \in 1..Len(gl.constraints) : ~NonUnion(k) =>
            \A p \in 1..NumTrials :
                gl.constraints[k][p] <=>
                    (gl.built[k][p] /\ \A i \in 1..(k - 1) : ~Removed(i, p))

\* a union mask that lost an entry to an earlier mask's truncation
C3_Witness ==
    /\ Shrunk
    /\ \E k \in 2..Len(gl.constraints) :
          ~NonUnion(k) /\ \E p \in 1..NumTrials : Removed(k, p)

\* the first k true positions of a mask
Prefix(m, k) == {p \in 1..Len(m) : m[p] /\ TrueUpTo(m, p) <= k}

\* M1 and M2 share a prefix of true positions that min_n cuts into
SharedPrefixCut ==
    \E k \in 1..NumTrials :
        /\ k <= TrueCount(gl.built[1]) /\ k <= TrueCount(gl.built[2])
        /\ Prefix(gl.built[1], k) = Prefix(gl.built[2], k)
        /\ BuiltMin < k

\* the resulting M3 of the call, which equalized in the order [M1, M2, M3]
M3Last == gl.constraints[3]
\* the resulting M3 of equalizing the same masks in the order [M3, M1, M2]
M3First ==
    Shrink(<<gl.built[3], gl.built[1], gl.built[2]>>,
           <<gl.stimulus_types[3], gl.stimulus_types[1], gl.stimulus_types[2]>>,
           gl.tier, gl.shrink_to_same_size)[1]

\* C4 as stated: with a shared prefix of M1 and M2 that min_n cuts into, the
\* two input orders give different results for M3.
C4_OrderAlwaysMatters ==
    (Shrunk /\ AllNonUnion /\ SharedPrefixCut) => M3Last # M3First

\* one of the first min_n true positions of M3 was removed from M1 or M2
M3MeetsRemoved ==
    \E p \in Prefix(gl.built[3], BuiltMin) : Removed(1, p) \/ Removed(2, p)

\* C4 as amended: under the same premises the two orders give different
\* results for M3 exactly when one of the first min_n true positions of M3
\* is a position that the equalization removed from M1 or M2.
C4_OrderMattersOnOverlap ==
    (Shrunk /\ AllNonUnion /\ SharedPrefixCut) =>
        ((M3Last # M3First) <=> M3MeetsRemoved)

\* the premises hold, M3 overlaps the removed positions, the results differ
C4_Witness ==
    Shrunk /\ AllNonUnion /\ SharedPrefixCut /\ M3MeetsRemoved /\ M3Last # M3First

(***************************************************************************)
(* BalancedSubsetSampler                                                   *)
(***************************************************************************)
\* the per-category counts of the listed indices
CountsOf(args) ==
    LET cat(k) == args.types[args.indices[k]]
    IN  {Cardinality({j \in 1..Len(args.indices) : cat(j) = cat(k)}) :
            k \in 1..Len(args.indices)}
NumCategoriesOf(args) ==
    Cardinality({args.types[args.indices[k]] : k \in 1..Len(args.indices)})

\* an iteration has run (a constructed sampler emits at least one index)
Iterated == sampler.pc = "constructed" /\ emitted # <<>>

NoIndexTwice == \A a, b \in 1..Len(emitted) : a # b => emitted[a] # emitted[b]
FromIndexList ==
    \A a \in 1..Len(emitted) :
        \E k \in 1..Len(sampler.args.indices) : emitted[a] = sampler.args.indices[k]

\* C5 as stated: over counts {A:3, B:7} in mode 'shortest' the length is
\* categories times minimum count, 6, and every iteration emits 6 indices.
C5_LengthIsCategoriesTimesMin ==
    sampler.pc = "constructed" =>
        /\ BalancedLen(sampler.self)
              = NumCategoriesOf(sampler.args) * Min(CountsOf(sampler.args))
        /\ Iterated =>
              Len(emitted) = NumCategoriesOf(sampler.args) * Min(CountsOf(sampler.args))

\* C5 as amended: over counts {A:3, B:7} in mode 'shortest' the length is
\* the minimum category count, 3, and every iteration emits 3 indices.
C5_LengthIsMin ==
    sampler.pc = "constructed" =>
        /\ CountsOf(sampler.args) = {3, 7}
        /\ BalancedLen(sampler.self) = 3
        /\ Iterated => Len(emitted) = 3

\* the sampler over the fixture has been iterated
C5_Witness ==
    /\ Iterated
    /\ sampler.args.mode = "shortest"
    /\ CountsOf(sampler.args) = {3, 7}
    /\ Len(emitted) = 3

C6_RepeatInLongest ==
    Iterated /\ sampler.args.mode = "longest" /\ ~NoIndexTwice

(***************************************************************************)
(* Split load_data                                                         *)
(***************************************************************************)
\* the token list the key's string was written from
KeyTokens ==
    CHOOSE ts \in TokenLists :
        \E sep \in Separators : Join(ts, sep) = key.stimulus_types

Abs(x) == IF x < 0 THEN -x ELSE x

\* C7 as stated: the group sizes differ pairwise by at most one.
C7_SizesWithinOne ==
    ld.pc = "super" =>
        \A i, j \in 1..Len(ld.group_sizes) :
            Abs(ld.group_sizes[i] - ld.group_sizes[j]) <= 1

\* C7 as amended: each of the first T-1 groups has n // T members and the
\* last has n // T + n mod T, so the sizes differ pairwise by at most
\* n mod T, which is at most T-1.
C7_RemainderInLastGroup ==
    ld.pc = "super" =>
        LET T == Len(KeyTokens)
            n == member_count
        IN  /\ Len(ld.group_sizes) = T
            /\ \A i \in 1..(T - 1) : ld.group_sizes[i] = n \div T
            /\ ld.group_sizes[T] = (n \div T) + (n % T)
            /\ \A i, j \in 1..T :
                  Abs(ld.group_sizes[i] - ld.group_sizes[j]) <= n % T

\* three tokens and five members: sizes 1, 1, 3
C7_Witness ==
    /\ ld.pc = "super"
    /\ Len(KeyTokens) = 3 /\ member_count = 5
    /\ ld.group_sizes = <<1, 1, 3>>

\* the group of the m-th member: n // T members in each group but the last
GroupOf(m, n, T) ==
    IF (m - 1) \div (n \div T) + 1 < T THEN (m - 1) \div (n \div T) + 1 ELSE T

\* C8: the per-dataset token list has n entries; the m-th is the token of
\* the m-th member's group in the list rotated left by p mod T.
C8_TokenList ==
    ld.pc = "super" =>
        LET t == KeyTokens
            T == Len(t)
            n == member_count
            p == key.permute % T
        IN  /\ Len(ld.stimulus_types) = n
            /\ \A m \in 1..n :
                  ld.stimulus_types[m] = t[((GroupOf(m, n, T) - 1 + p) % T) + 1]
            /\ (t = <<(<<"x">>), (<<"y">>)>> /\ n = 7 /\ key.permute = 0) =>
                  ld.stimulus_types = <<(<<"x">>), (<<"x">>), (<<"x">>), (<<"y">>),
                                        (<<"y">>), (<<"y">>), (<<"y">>)>>
            /\ (t = <<(<<"x">>), (<<"y">>)>> /\ n = 7 /\ key.permute = 1) =>
                  ld.stimulus_types = <<(<<"y">>), (<<"y">>), (<<"y">>), (<<"x">>),
                                        (<<"x">>), (<<"x">>), (<<"x">>)>>

\* tokens x, y with seven members and permute 1
C8_Witness ==
    /\ ld.pc = "super"
    /\ KeyTokens = <<(<<"x">>), (<<"y">>)>> /\ member_count = 7 /\ key.permute = 1
    /\ Len(ld.stimulus_types) = 7
    /\ ld.stimulus_types[1] = <<"y">> /\ ld.stimulus_types[7] = <<"x">>

\* C9: with n // T < 1 the call ends in the assertion's error; the outcome
\* holds no per-dataset token list and no call of the loader code.
C9_TooFewMembersRaises ==
    (ld.pc # "idle" /\ member_count \div Len(KeyTokens) < 1) =>
        ld = [pc |-> "raised", error |-> "AssertionError"]

\* three tokens and two members: raised
C9_Witness ==
    /\ ld.pc = "raised"
    /\ Len(KeyTokens) = 3 /\ member_count = 2

(***************************************************************************)
(* get_constraint                                                          *)
(***************************************************************************)
\* a token that is empty after trimming, or a bare '~'
Malformed(stimulus_type) ==
    \E k \in 1..Len(Tokens(stimulus_type)) :
        Tokens(stimulus_type)[k] \in {<<>>, <<"~">>}

\* C10: a malformed expression ends the call in an error and no mask is
\* returned.
C10_MalformedRaises ==
    (gc.pc # "idle" /\ Malformed(gc.stimulus_type)) => gc.pc = "raised"

(***************************************************************************)
(* The samplers of get_loaders                                             *)
(***************************************************************************)
\* the mask of dataset k is zero-length
EmptyMask(k) == \A p \in 1..Len(gl.constraints[k]) : ~gl.constraints[k][p]

\* C11: a dataset whose mask is zero-length still gets a constructed, empty
\* sampler and the call does not raise, whatever the tier and the balanced
\* flag.
C11_EmptyMaskStillSampler ==
    gl.pc # "idle" =>
        \A k \in 1..Len(gl.constraints) : EmptyMask(k) =>
            /\ gl.pc = "returned"
            /\ gl.loaders[k].pc = "constructed"
            /\ gl.loaders[k].indices = <<>>

(***************************************************************************)
(* The mask of get_constraint                                              *)
(***************************************************************************)
\* the '|'-separated pieces of an expression, as first and last position
TokenSpans(s) ==
    {sp \in (1..(Len(s) + 1)) \X (0..Len(s)) :
        /\ sp[1] <= sp[2] + 1
        /\ (sp[1] = 1 \/ s[sp[1] - 1] = "|")
        /\ (sp[2] = Len(s) \/ s[sp[2] + 1] = "|")
        /\ \A i \in sp[1]..sp[2] : s[i] # "|"}

\* a piece without its leading and trailing whitespace
Trimmed(s, sp) ==
    LET ns == {i \in sp[1]..sp[2] : s[i] \notin Whitespace}
    IN  IF ns = {}
        THEN <<>>
        ELSE SubSeq(s, CHOOSE i \in ns : \A h \in ns : i <= h,
                       CHOOSE i \in ns : \A h \in ns : h <= i)

\* a plain token matches its own type, a '~X' token every type but X
Matches(tok, type) ==
    IF tok # <<>> /\ tok[1] = "~"
    THEN type # SubSeq(tok, 2, Len(tok))
    ELSE type = tok

\* a type name: no tilde, no bar, no whitespace
PlainName(x) == \A i \in 1..Len(x) : x[i] \notin ({"~", "|"} \cup Whitespace)

\* C12: the mask is true at a trial exactly when some trimmed '|'-separated
\* token matches the trial's type and, with a tier filter, the trial's tier
\* equals it; so the mask of 'L|R' is the mask of L OR the mask of R, and
\* with no tier filter the mask of '~X' is the complement of the mask of X.
C12_MaskIsUnionOfTokens ==
    gc.pc = "returned" =>
        LET st == gc.stimulus_type
            n  == Len(dataset.types)
        IN  /\ Len(gc.constraint) = n
            /\ \A p \in 1..n :
                  gc.constraint[p] <=>
                      /\ \E sp \in TokenSpans(st) : Matches(Trimmed(st, sp), dataset.types[p])
                      /\ gc.tier = None \/ dataset.tiers[p] = gc.tier
            /\ \A i \in 1..Len(st) : st[i] = "|" =>
                  LET l == get_constraint(dataset, SubSeq(st, 1, i - 1), gc.tier)
                      r == get_constraint(dataset, SubSeq(st, i + 1, Len(st)), gc.tier)
                  IN  gc.constraint = [p \in 1..n |-> l[p] \/ r[p]]
            /\ (gc.tier = None /\ st # <<>> /\ st[1] = "~" /\ PlainName(Drop(st, 1))) =>
                  LET x == get_constraint(dataset, Drop(st, 1), None)
                  IN  gc.constraint = [p \in 1..n |-> ~x[p]]

\* a union with a negated token under a tier filter that excludes a trial the
\* tokens match, and a mask that is neither empty nor full
C12_Witness ==
    /\ gc.pc = "returned"
    /\ gc.tier # None
    /\ HasPipe(gc.stimulus_type)
    /\ \E sp \in TokenSpans(gc.stimulus_type) :
          StartsWithTilde(Trimmed(gc.stimulus_type, sp)) /\ Len(Trimmed(gc.stimulus_type, sp)) = 2
    /\ \E p \in 1..Len(gc.constraint) : gc.constraint[p]
    /\ \E q \in 1..Len(gc.constraint) :
          ~gc.constraint[q] /\ get_constraint(dataset, gc.stimulus_type, None)[q]

(***************************************************************************)
(* The sampler variant of each loader                                      *)
(***************************************************************************)
\* the variant that tier and balanced call for
ExpectedKind(tier, balanced) ==
    IF tier = "train"
    THEN (IF balanced THEN "BalancedSubsetSampler" ELSE "SubsetRandomSampler")
    ELSE "SubsetSequentialSampler"

\* the sequence holds every selected position of the mask once, ascending
AscendingOnce(seq, mask) ==
    /\ \A i, j \in 1..Len(seq) : i < j => seq[i] < seq[j]
    /\ {seq[i] : i \in 1..Len(seq)} = {p \in 1..Len(mask) : mask[p]}

\* the sampler of loader k has just been iterated
IteratedLoader(k) == sampler.pc = "iterated" /\ sampler.k = k

\* C13: every dataset of a call gets the sampler variant that tier and
\* balanced alone call for (random-subset for 'train' unbalanced, balanced
\* for 'train' balanced, sequential for every other tier), and every
\* iteration of a sequential sampler emits each selected index once in
\* ascending order.
C13_VariantFixedByTierAndBalanced ==
    gl.pc # "idle" =>
        /\ Len(gl.loaders) = Len(datasets)
        /\ \A k \in 1..Len(gl.loaders) :
              /\ gl.loaders[k].pc = "constructed"
              /\ gl.loaders[k].kind = ExpectedKind(gl.tier, gl.balanced)
              /\ (gl.loaders[k].kind = "SubsetSequentialSampler" /\ IteratedLoader(k)) =>
                    AscendingOnce(emitted, gl.constraints[k])

(***************************************************************************)
(* Cascading exclusion and the bounds of size equalization                 *)
(***************************************************************************)
\* the truncation of mask i removed position p: true in mask i when it was
\* processed (built true and removed from no earlier mask), false in its result
TruncatedAt(i, p) == Removed(i, p) /\ ~RemovedEarlier(i, p)

\* C14: a position that the truncation of mask i removed is false in the
\* result of every mask processed after i, masks with '|' included.
C14_CascadingExclusion ==
    Shrunk =>
        \A i \in 1..Len(gl.constraints), p \in 1..NumTrials : TruncatedAt(i, p) =>
            \A j \in (i + 1)..Len(gl.constraints) : ~gl.constraints[j][p]

\* a truncation takes a position out of a later union mask that was built
\* with it
C14_Witness ==
    /\ Shrunk
    /\ \E i \in 1..Len(gl.constraints), p \in 1..NumTrials :
          /\ TruncatedAt(i, p)
          /\ \E j \in (i + 1)..Len(gl.constraints) :
                ~NonUnion(j) /\ gl.built[j][p] /\ ~gl.constraints[j][p]

\* the call equalizes: the flag is set and the tier is None, 'train' or
\* 'validation'
Equalizes ==
    /\ gl.pc # "idle"
    /\ gl.shrink_to_same_size
    /\ gl.tier \in {None, "train", "validation"}

\* C15: after equalization every resulting mask is a subset of the mask as
\* built and every resulting mask without '|' has at most min_n true entries,
\* min_n being the minimum true-count of the masks as built; for a tier other
\* than None, 'train' and 'validation' the masks are returned as built.
C15_SubsetAndAtMostMin ==
    gl.pc # "idle" =>
        /\ Len(gl.constraints) = Len(gl.built)
        /\ \A k \in 1..Len(gl.constraints), p \in 1..NumTrials :
              gl.constraints[k][p] => gl.built[k][p]
        /\ Equalizes =>
              \A k \in 1..Len(gl.constraints) :
                  NonUnion(k) => TrueCount(gl.constraints[k]) <= BuiltMin
        /\ gl.tier \notin {None, "train", "validation"} => gl.constraints = gl.built

\* an equalized mask without '|' that was built with more than min_n true
\* entries and ends with fewer than min_n
C15_Witness ==
    /\ Equalizes
    /\ \E k \in 1..Len(gl.constraints) :
          /\ NonUnion(k)
          /\ TrueCount(gl.built[k]) > BuiltMin
          /\ TrueCount(gl.constraints[k]) < BuiltMin

=============================================================================
